---- MODULE Spec2Model ----
(***************************************************************************)
(* The deployment monitor of the mcpboss CLI: showDeploymentProgress of    *)
(* src/src/hosted.ts.  One run of the monitor is one Promise executor: it  *)
(* creates a fresh deploymentState, opens an EventSource, registers the    *)
(* DeploymentLogPayload listener and the onerror callback, and arms a      *)
(* 5-minute timer.  Every callback runs to completion on the single        *)
(* JavaScript thread, so each callback is one action.                      *)
(*                                                                         *)
(* Environment: the EventSource is the `eventsource` package, which is     *)
(* not part of the repository.  It is modelled by its interface: while     *)
(* the stream is open the server may deliver any event and the transport   *)
(* may fail; close() moves it to CLOSED, after which neither the listener  *)
(* nor onerror is called again.  Timers fire at any moment (time is        *)
(* abstracted), each exactly once, and are never cleared by the code.      *)
(***************************************************************************)
EXTENDS Integers, Sequences, FiniteSets, TLC

\* Number of stream events the server delivers in one run.
MaxEvents == 4

VARIABLES
  deploymentState,  \* hosted.ts:276  the DeploymentState of the run
  eventSource,      \* hosted.ts:292  [readyState, closeCalls]
  promise,          \* hosted.ts:275  the promise returned to the caller
  timeout,          \* hosted.ts:581  the 5-minute timer: "armed" | "fired"
  crashTimers,      \* hosted.ts:416,557  pending 2-second reject timers
  crashLogFetch,    \* hosted.ts:523  "none" | "pending" | "stored" | "unavailable"
  fired,            \* the terminal paths that executed, in order
  delivered,        \* number of events handled by the listener
  script,           \* replays: the event sequence the server sends; else <<>>
  process,          \* the Node process: "running" | "crashed" (uncaught exception)
  earlierRun,       \* what an earlier run of the monitor in this process left
  fetcher,          \* hosted.ts:205  one call of fetchCrashLogs
  stream,           \* hosted.ts:285-301  credential and HTTP requests of the stream
  query,            \* lib McpBoss.query: one call
  viewer,           \* deploment-logs-frontend.tsx:289  one crash-log fetch of the UI
  config            \* src/config: the stored configuration file

\* The state outside the CLI monitor and its crash-log fetcher.
others == <<stream, query, viewer, config>>

vars == <<deploymentState, eventSource, promise, timeout, crashTimers,
          crashLogFetch, fired, delivered, script, process, earlierRun,
          fetcher, stream, query, viewer, config>>

Undefined == "undefined"

Range(s) == {s[i] : i \in DOMAIN s}

-----------------------------------------------------------------------------
(* Stream payloads (DeploymentLogPayload), hosted.ts:406-542                *)

BlankEvent(t) ==
  [type |-> t, name |-> Undefined, pod |-> Undefined,
   initContainers |-> <<>>, containers |-> <<>>,
   startedAt |-> Undefined, finishedAt |-> Undefined,
   exitCode |-> 0, reason |-> Undefined, message |-> Undefined,
   shape |-> "typed"]

PodInfoEvents ==
  { [BlankEvent("podInfo") EXCEPT !.pod = "pod-a",
        !.initContainers = <<"download">>, !.containers = <<"main">>],
    [BlankEvent("podInfo") EXCEPT !.pod = "pod-b",
        !.initContainers = <<"main">>, !.containers = <<"main", "download">>] }

\* podInfo payloads that lack fields the DeploymentLogPayload type requires: both
\* container lists, or the main-container list only.
UntypedPodInfoEvents ==
  { [BlankEvent("podInfo") EXCEPT !.pod = "pod-a", !.shape = "noLists"],
    [BlankEvent("podInfo") EXCEPT !.pod = "pod-a",
        !.initContainers = <<"download">>, !.shape = "noMainList"] }

InitNames == {"download", "ghost"}

TerminationEvents(t) ==
  { [BlankEvent(t) EXCEPT !.startedAt = "t1", !.finishedAt = "t2",
        !.exitCode = 0],
    [BlankEvent(t) EXCEPT !.startedAt = "t1", !.finishedAt = "t2",
        !.exitCode = 1, !.reason = "OOMKilled"] }

Events ==
  PodInfoEvents
  \cup { [BlankEvent("initContainerRunning") EXCEPT !.name = n] : n \in InitNames }
  \cup { [e EXCEPT !.name = n] :
            e \in TerminationEvents("initContainerTerminated"), n \in InitNames }
  \cup TerminationEvents("mainContainerCrashed")
  \cup { BlankEvent("mainContainerRunning"), BlankEvent("mainContainerReady"),
         BlankEvent("mainContainerCrashBackOff"), BlankEvent("done"),
         BlankEvent("malformed") }
  \cup { [BlankEvent("error") EXCEPT !.message = "backend error"] }

-----------------------------------------------------------------------------
(* DeploymentState, hosted.ts:256-282                                       *)

NoPodInfo == [pod |-> Undefined, initContainers |-> <<>>, containers |-> <<>>]

InitialDeploymentState ==
  [podInfo |-> NoPodInfo, hasPodInfo |-> FALSE,
   containers |-> <<>>,
   errors |-> <<>>,
   isComplete |-> FALSE, isReady |-> FALSE, hasCrashed |-> FALSE,
   crashLogs |-> Undefined]

PendingContainer(n, kind) ==
  [name |-> n, type |-> kind, status |-> "pending",
   startedAt |-> Undefined, finishedAt |-> Undefined,
   exitCode |-> -1, reason |-> Undefined]

SetRunning(c) == [c EXCEPT !.status = "running"]
SetReady(c) == [c EXCEPT !.status = "ready"]

Terminated(c, ev, st) ==
  [c EXCEPT !.status = st, !.startedAt = ev.startedAt,
            !.finishedAt = ev.finishedAt, !.exitCode = ev.exitCode,
            !.reason = ev.reason]

\* mainContainerCrashed that sets the status only.
MainCrashedStatusOnly(cs, ev) ==
  [n \in DOMAIN cs |->
     IF cs[n].type = "main" THEN [cs[n] EXCEPT !.status = "failed"] ELSE cs[n]]

\* Object.keys(containers).forEach: every container of type main is updated.
MainRunning(cs) ==
  [n \in DOMAIN cs |-> IF cs[n].type = "main" THEN SetRunning(cs[n]) ELSE cs[n]]

MainReady(cs) ==
  [n \in DOMAIN cs |-> IF cs[n].type = "main" THEN SetReady(cs[n]) ELSE cs[n]]

MainCrashed(cs, ev) ==
  [n \in DOMAIN cs |->
     IF cs[n].type = "main" THEN Terminated(cs[n], ev, "failed") ELSE cs[n]]

\* podInfo with the two forEach loops in the other order.
ReducePodInfoInitLast(s, ev) ==
  LET ini == Range(ev.initContainers)
      mai == Range(ev.containers)
  IN [s EXCEPT
        !.podInfo = [pod |-> ev.pod, initContainers |-> ev.initContainers,
                     containers |-> ev.containers],
        !.hasPodInfo = TRUE,
        !.containers =
           [n \in DOMAIN s.containers \cup ini \cup mai |->
              IF n \in ini THEN PendingContainer(n, "init")
              ELSE IF n \in mai THEN PendingContainer(n, "main")
              ELSE s.containers[n]]]

\* case 'podInfo', hosted.ts:431-455: the init list is written first, the main
\* list second, so a name in both lists ends as a main container.
ReducePodInfo(s, ev) ==
  LET ini == Range(ev.initContainers)
      mai == Range(ev.containers)
  IN [s EXCEPT
        !.podInfo = [pod |-> ev.pod, initContainers |-> ev.initContainers,
                     containers |-> ev.containers],
        !.hasPodInfo = TRUE,
        !.containers =
           [n \in DOMAIN s.containers \cup ini \cup mai |->
              IF n \in mai THEN PendingContainer(n, "main")
              ELSE IF n \in ini THEN PendingContainer(n, "init")
              ELSE s.containers[n]]]

\* initContainerRunning without the check that the container exists: the
\* spread of a missing record yields a new record.
ReduceInitRunningUnguarded(s, ev) ==
  [s EXCEPT !.containers =
     [n \in DOMAIN s.containers \cup {ev.name} |->
        IF n = ev.name
        THEN SetRunning(IF n \in DOMAIN s.containers THEN s.containers[n]
                        ELSE PendingContainer(n, Undefined))
        ELSE s.containers[n]]]

\* case 'initContainerRunning', hosted.ts:457-464.
ReduceInitRunning(s, ev) ==
  IF ev.name \in DOMAIN s.containers
  THEN [s EXCEPT !.containers[ev.name] = SetRunning(@)]
  ELSE s

\* initContainerTerminated that takes every termination for a success.
ReduceInitTerminatedAlwaysCompleted(s, ev) ==
  IF ev.name \in DOMAIN s.containers
  THEN [s EXCEPT !.containers[ev.name] = Terminated(@, ev, "completed")]
  ELSE s

\* case 'initContainerTerminated', hosted.ts:466-477.
ReduceInitTerminated(s, ev) ==
  IF ev.name \in DOMAIN s.containers
  THEN [s EXCEPT !.containers[ev.name] =
          Terminated(@, ev, IF ev.exitCode = 0 THEN "completed" ELSE "failed")]
  ELSE s

\* mainContainerReady without the test on the container type.
ReduceMainReadyEveryContainer(s) ==
  [s EXCEPT !.containers = [n \in DOMAIN @ |-> SetReady(@[n])], !.isReady = TRUE]

\* case 'mainContainerReady', hosted.ts:491-502.
ReduceMainReady(s) ==
  [s EXCEPT !.containers = MainReady(@), !.isReady = TRUE]

\* case 'error' that keeps the latest message only.
ReduceErrorKeepsLatest(s, ev) == [s EXCEPT !.errors = <<ev.message>>]

\* case 'error', hosted.ts:539-541: errors.push(newLog.message).
ReduceError(s, ev) == [s EXCEPT !.errors = Append(@, ev.message)]

\* The switch of the listener, hosted.ts:430-542.
Reduce(s, ev) ==
  CASE ev.type = "podInfo" -> ReducePodInfo(s, ev)
    [] ev.type = "initContainerRunning" -> ReduceInitRunning(s, ev)
    [] ev.type = "initContainerTerminated" -> ReduceInitTerminated(s, ev)
    [] ev.type = "mainContainerRunning" ->
         [s EXCEPT !.containers = MainRunning(@)]
    [] ev.type = "mainContainerReady" -> ReduceMainReady(s)
    [] ev.type = "mainContainerCrashed" ->
         [s EXCEPT !.containers = MainCrashed(@, ev), !.hasCrashed = TRUE]
    [] ev.type = "error" -> ReduceError(s, ev)
    [] OTHER -> s   \* no case for the type (mainContainerCrashBackOff)

-----------------------------------------------------------------------------
(* The EventSource handle and the promise, hosted.ts:275, 292               *)

\* eventSource.close()
CloseStream(es) == [es EXCEPT !.readyState = "closed", !.closeCalls = @ + 1]

\* resolve(): called without an argument (Promise<void>); a settled promise
\* ignores it.
Resolve(p) ==
  [p EXCEPT !.resolveCalls = @ + 1,
            !.state = IF @ = "pending" THEN "fulfilled" ELSE @]

\* reject(new Error(msg)); a settled promise ignores it.
Reject(p, msg) ==
  [p EXCEPT !.rejectCalls = @ + 1,
            !.state = IF @ = "pending" THEN "rejected" ELSE @,
            !.error = IF p.state = "pending" THEN msg ELSE @]

\* The monitor has loaded the configuration and opened the stream,
\* hosted.ts:285-301: the first request carries config.apiKey, the credential
\* of the configuration at that moment.
OpenedStream ==
  [apiKey |-> 1, current |-> 1, sent |-> <<[token |-> 1, current |-> 1]>>]

\* McpBoss.query not called.
IdleQuery ==
  [pc |-> "idle", agents |-> <<>>,
   options |-> [agentId |-> Undefined, modelId |-> Undefined,
                llmApiKeyId |-> Undefined, dontAutoCreateAgent |-> FALSE,
                timeoutInMilliseconds |-> -1],
   agent |-> Undefined, created |-> 0, runs |-> 0, polls |-> 0,
   elapsed |-> 0, result |-> Undefined]

\* The UI has fetched no crash logs.
IdleViewer ==
  [pc |-> "idle", retryCount |-> 0, requests |-> 0, isLoading |-> FALSE,
   errors |-> 0]

\* No configuration file: readConfig() returns {}.
EmptyConfig ==
  [orgs |-> <<>>, defaultOrgId |-> Undefined,
   lastSet |-> [made |-> FALSE, orgId |-> Undefined, wasStored |-> FALSE,
                baseUrl |-> Undefined, apiKey |-> Undefined]]

\* No earlier run of the monitor in this process.
NoEarlierRun ==
  [ran |-> FALSE, deploymentState |-> InitialDeploymentState, delivered |-> 0,
   fired |-> <<>>, crashLogFetch |-> "none"]

\* Result values of fetchCrashLogs: null, or the logs of a response.
Null == [isNull |-> TRUE, stdout |-> "", stderr |-> ""]
Logs(out, err) == [isNull |-> FALSE, stdout |-> out, stderr |-> err]

\* What one call of mcpBoss.api.getDeploymentsLogs yields: an error field, a
\* thrown exception (network), no data.logs, or logs.
Response(k, out, err) == [kind |-> k, stdout |-> out, stderr |-> err]

Responses ==
  { Response("error", "", ""), Response("threw", "", ""),
    Response("nodata", "", "") }
  \cup { Response("logs", out, err) : out \in {"", "out"}, err \in {"", "err"} }

\* fetchCrashLogs not called.  requests, emptyResponses and last record the
\* requests made, the responses with empty stdout and the last response.
IdleFetcher ==
  [pc |-> "idle", retryCount |-> 0, requests |-> 0, emptyResponses |-> 0,
   last |-> Response("none", "", ""), result |-> Null, thrown |-> FALSE]

Init ==
  /\ deploymentState = InitialDeploymentState
  /\ eventSource = [readyState |-> "open", closeCalls |-> 0]
  /\ promise = [state |-> "pending", value |-> {}, error |-> Undefined,
                resolveCalls |-> 0, rejectCalls |-> 0]
  /\ timeout = "armed"
  /\ crashTimers = 0
  /\ crashLogFetch = "none"
  /\ fired = <<>>
  /\ delivered = 0
  /\ script = <<>>
  /\ process = "running"
  /\ earlierRun = NoEarlierRun
  /\ fetcher = IdleFetcher
  /\ stream = OpenedStream
  /\ query = IdleQuery
  /\ viewer = IdleViewer
  /\ config = EmptyConfig

-----------------------------------------------------------------------------
(* The callbacks of one run, hosted.ts:404-589                              *)

\* The ready path with its eventSource.close() left out.
ReadyPathLeavesOpen(es) == es

\* Terminal step of the ready path, hosted.ts:547-550: eventSource.close().
ReadyPathClose(es) == CloseStream(es)

\* Terminal step of the crash path, hosted.ts:553-554: eventSource.close().
CrashPathClose(es) == CloseStream(es)

\* The done branch with its eventSource.close() left out.
DonePathLeavesOpen(es) == es

\* Terminal step of the done branch, hosted.ts:409-410.
DonePathClose(es) == CloseStream(es)

\* The timer guard inverted.
TimeoutGuardInverted(s) == s.isComplete

\* Guard of the timer callback, hosted.ts:583.
TimeoutApplies(s) == ~s.isComplete

\* 'done' branch of the listener, hosted.ts:408-427.
HandleDone ==
  /\ deploymentState' = [deploymentState EXCEPT !.isComplete = TRUE]
  /\ eventSource' = DonePathClose(eventSource)
  /\ IF deploymentState.hasCrashed
     THEN /\ crashTimers' = crashTimers + 1
          /\ promise' = promise
     ELSE /\ crashTimers' = crashTimers
          /\ promise' = Resolve(promise)
  /\ fired' = Append(fired, "done")
  /\ UNCHANGED <<crashLogFetch, process>>

\* Every other parsed event, hosted.ts:429-564: the switch, then the isReady
\* check, then the hasCrashed check, both on the flags of the reduced state.
HandleUpdate(ev) ==
  LET s1 == Reduce(deploymentState, ev)
      es1 == IF s1.isReady THEN ReadyPathClose(eventSource) ELSE eventSource
      es2 == IF s1.hasCrashed THEN CrashPathClose(es1) ELSE es1
      f1 == IF s1.isReady THEN Append(fired, "ready") ELSE fired
      f2 == IF s1.hasCrashed THEN Append(f1, "crashed") ELSE f1
  IN /\ deploymentState' = s1
     /\ eventSource' = es2
     /\ promise' = IF s1.isReady THEN Resolve(promise) ELSE promise
     /\ crashTimers' = IF s1.hasCrashed THEN crashTimers + 1 ELSE crashTimers
     /\ crashLogFetch' =
          IF ev.type = "mainContainerCrashed" /\ s1.hasPodInfo
          THEN "pending" ELSE crashLogFetch
     /\ fired' = f2
     /\ process' = process

\* catch block of the listener, hosted.ts:565-569 (JSON.parse threw).
HandleParseFailure ==
  /\ deploymentState' =
       [deploymentState EXCEPT !.errors = Append(@, "Failed to parse deployment log")]
  /\ UNCHANGED <<eventSource, promise, crashTimers, crashLogFetch, fired, process>>

\* case 'podInfo' for a payload without its container lists, hosted.ts:431-448:
\* podInfo is assigned, then forEach on the missing list throws inside the try
\* (after the init containers were created when only the main list is
\* missing).  The catch (565-568) pushes an error and calls printCurrentState,
\* which reads .length of the missing list (332, 342) and throws again, outside
\* any try: the exception leaves the listener and, uncaught, ends the process.
HandleUntypedPodInfo(ev) ==
  /\ deploymentState' =
       [deploymentState EXCEPT
          !.podInfo = [pod |-> ev.pod, initContainers |-> ev.initContainers,
                       containers |-> ev.containers],
          !.hasPodInfo = TRUE,
          !.containers =
             [n \in DOMAIN @ \cup Range(ev.initContainers) |->
                IF n \in Range(ev.initContainers)
                THEN PendingContainer(n, "init") ELSE @[n]],
          !.errors = Append(@, "Failed to parse deployment log")]
  /\ process' = "crashed"
  /\ UNCHANGED <<eventSource, promise, crashTimers, crashLogFetch, fired>>

\* The DeploymentLogPayload listener, hosted.ts:404-570.  The stream delivers
\* an event only while it is open.
Listener(ev) ==
  /\ process = "running"
  /\ eventSource.readyState = "open"
  /\ delivered' = delivered + 1
  /\ CASE ev.type = "malformed" -> HandleParseFailure
       [] ev.type = "done" -> HandleDone
       [] ev.type = "podInfo" /\ ev.shape # "typed" -> HandleUntypedPodInfo(ev)
       [] OTHER -> HandleUpdate(ev)
  /\ UNCHANGED timeout

\* A run whose server sends any of Events, at most MaxEvents of them.
OnDeploymentLogPayload(ev) ==
  /\ delivered < MaxEvents
  /\ Listener(ev)
  /\ UNCHANGED <<script, earlierRun, fetcher, others>>

\* eventSource.onerror, hosted.ts:572-578.
OnError ==
  /\ process = "running"
  /\ eventSource.readyState = "open"
  /\ deploymentState' =
       [deploymentState EXCEPT !.errors = Append(@, "Connection error occurred")]
  /\ eventSource' = CloseStream(eventSource)
  /\ promise' = Reject(promise, "Failed to monitor deployment progress")
  /\ fired' = Append(fired, "error")
  /\ UNCHANGED <<timeout, crashTimers, crashLogFetch, delivered, script, process, earlierRun, fetcher, others>>

\* The 5-minute timer callback, hosted.ts:581-589.
OnTimeout ==
  /\ process = "running"
  /\ timeout = "armed"
  /\ timeout' = "fired"
  /\ IF TimeoutApplies(deploymentState)
     THEN /\ eventSource' = CloseStream(eventSource)
          /\ promise' = Reject(promise, "Deployment monitoring timed out after 5 minutes")
          /\ fired' = Append(fired, "timeout")
     ELSE UNCHANGED <<eventSource, promise, fired>>
  /\ UNCHANGED <<deploymentState, crashTimers, crashLogFetch, delivered, script, process, earlierRun, fetcher, others>>

\* A 2-second timer set by the crash path or the done branch,
\* hosted.ts:416-422, 557-563.
OnCrashTimer ==
  /\ process = "running"
  /\ crashTimers > 0
  /\ crashTimers' = crashTimers - 1
  /\ promise' = Reject(promise, "Deployment failed - main container crashed")
  /\ UNCHANGED <<deploymentState, eventSource, timeout, crashLogFetch, fired, delivered, script, process, earlierRun, fetcher, others>>

\* The completion writing the logs into a fresh state object.
CrashLogsFetchedIntoFreshState ==
  /\ process = "running"
  /\ crashLogFetch = "pending"
  /\ crashLogFetch' = "stored"
  /\ deploymentState' = [InitialDeploymentState EXCEPT !.crashLogs = "logs"]
  /\ UNCHANGED <<eventSource, promise, timeout, crashTimers, fired, delivered, script, process, earlierRun, fetcher, others>>

\* fetchCrashLogs(...).then, hosted.ts:523-532, with logs.
CrashLogsFetched ==
  /\ process = "running"
  /\ crashLogFetch = "pending"
  /\ crashLogFetch' = "stored"
  /\ deploymentState' = [deploymentState EXCEPT !.crashLogs = "logs"]
  /\ UNCHANGED <<eventSource, promise, timeout, crashTimers, fired, delivered, script, process, earlierRun, fetcher, others>>

\* fetchCrashLogs(...).then, hosted.ts:529-531, with null.
CrashLogsUnavailable ==
  /\ process = "running"
  /\ crashLogFetch = "pending"
  /\ crashLogFetch' = "unavailable"
  /\ UNCHANGED <<deploymentState, eventSource, promise, timeout, crashTimers,
                 fired, delivered, script, process, earlierRun, fetcher, others>>

Next ==
  \/ \E ev \in Events : OnDeploymentLogPayload(ev)
  \/ OnError
  \/ OnTimeout
  \/ OnCrashTimer
  \/ CrashLogsFetched
  \/ CrashLogsUnavailable

Spec == Init /\ [][Next]_vars

\* A server that also sends payloads that do not conform to the
\* DeploymentLogPayload type.
OnUntypedPayload(ev) == OnDeploymentLogPayload(ev)

NextUntyped ==
  \/ Next
  \/ \E ev \in UntypedPodInfoEvents : OnUntypedPayload(ev)

SpecUntyped == Init /\ [][NextUntyped]_vars

-----------------------------------------------------------------------------
(* Replays: the server sends a fixed event sequence                         *)

\* Length of the enumerated event sequences.
MaxScript == 3

\* The example sequence of the specification (section 8).
ExamplePodInfo ==
  [BlankEvent("podInfo") EXCEPT !.pod = "pod-x",
      !.initContainers = <<"download", "unzip">>, !.containers = <<"main">>]

ExampleSequence ==
  << ExamplePodInfo,
     [BlankEvent("initContainerRunning") EXCEPT !.name = "download"],
     [BlankEvent("initContainerTerminated") EXCEPT !.name = "download",
         !.startedAt = "t1", !.finishedAt = "t2", !.exitCode = 0],
     [BlankEvent("initContainerTerminated") EXCEPT !.name = "unzip",
         !.startedAt = "t1", !.finishedAt = "t2", !.exitCode = 1,
         !.reason = "OOMKilled"],
     BlankEvent("mainContainerRunning"),
     BlankEvent("mainContainerReady") >>

Scripts ==
  UNION {[1..n -> Events] : n \in 0..MaxScript} \cup {ExampleSequence}

InitReplay ==
  /\ deploymentState = InitialDeploymentState
  /\ eventSource = [readyState |-> "open", closeCalls |-> 0]
  /\ promise = [state |-> "pending", value |-> {}, error |-> Undefined,
                resolveCalls |-> 0, rejectCalls |-> 0]
  /\ timeout = "armed"
  /\ crashTimers = 0
  /\ crashLogFetch = "none"
  /\ fired = <<>>
  /\ delivered = 0
  /\ script \in Scripts
  /\ process = "running"
  /\ earlierRun = NoEarlierRun
  /\ fetcher = IdleFetcher
  /\ stream = OpenedStream
  /\ query = IdleQuery
  /\ viewer = IdleViewer
  /\ config = EmptyConfig

\* A stream that delivers the events of the script last to first.
ReplayLastFirst ==
  /\ delivered < Len(script)
  /\ Listener(script[Len(script) - delivered])
  /\ UNCHANGED <<script, earlierRun, fetcher, others>>

\* The stream delivers the next event of the script to the listener.
Replay ==
  /\ delivered < Len(script)
  /\ Listener(script[delivered + 1])
  /\ UNCHANGED <<script, earlierRun, fetcher, others>>

NextReplay ==
  \/ Replay
  \/ OnError
  \/ OnTimeout
  \/ OnCrashTimer
  \/ CrashLogsFetched
  \/ CrashLogsUnavailable

SpecReplay == InitReplay /\ [][NextReplay]_vars

\* The event handled by the last step of the listener.
LastEvent == script[delivered]

-----------------------------------------------------------------------------
(* The HTTP requests of the event stream, hosted.ts:285-301                 *)

\* Requests the transport makes for one stream, reconnects included.
MaxRequests == 3

\* Versions of the credential: the token is refreshed at most MaxTokens - 1
\* times.
MaxTokens == 2

\* The credential of the stored configuration changes: a token refresh writes
\* the new access token (lib FileConfigStrategy.getConfig, token()).
TokenRefreshed ==
  /\ process = "running"
  /\ stream.current < MaxTokens
  /\ stream' = [stream EXCEPT !.current = @ + 1]
  /\ UNCHANGED <<deploymentState, eventSource, promise, timeout, crashTimers,
                 crashLogFetch, fired, delivered, script, process, earlierRun,
                 fetcher, query, viewer, config>>

\* The fetch wrapper given to the EventSource, hosted.ts:293-300:
\* Authorization: `Bearer ${config.apiKey}`, config being the constant set at
\* line 285.
AuthorizationHeader(s) == s.apiKey

\* The transport reconnects an open stream by itself: it calls the fetch
\* wrapper again.
Reconnect ==
  /\ process = "running"
  /\ eventSource.readyState = "open"
  /\ Len(stream.sent) < MaxRequests
  /\ stream' = [stream EXCEPT !.sent =
        Append(@, [token |-> AuthorizationHeader(stream), current |-> stream.current])]
  /\ UNCHANGED <<deploymentState, eventSource, promise, timeout, crashTimers,
                 crashLogFetch, fired, delivered, script, process, earlierRun,
                 fetcher, query, viewer, config>>

NextStream ==
  \/ Next
  \/ TokenRefreshed
  \/ Reconnect

SpecStream == Init /\ [][NextStream]_vars

-----------------------------------------------------------------------------
(* McpBoss.query, lib (unnamed/part_006:138-327)                            *)

\* Agents listed by getAgents.
MaxAgents == 2

\* Polls of one query whose run stays unknown and that has no timeout.
MaxPolls == 3

\* setTimeout(resolve, 1000) before every poll.
PollIntervalMs == 1000

NoTimeout == -1

AgentIdNames == <<"a1", "a2", "a3", "a4">>

\* data.agents: the agent at position i has id AgentIdNames[i].
AgentLists ==
  UNION { { [i \in 1..n |-> [id |-> AgentIdNames[i], modelId |-> f[i][1],
                              apiKeyId |-> f[i][2]]] :
              f \in [1..n -> {"m1", "m2"} \X {"k1", "k2"}] } : n \in 0..MaxAgents }

QueryOptions ==
  [agentId : {Undefined, "a2", "zz"}, modelId : {Undefined, "m1"},
   llmApiKeyId : {Undefined, "k1"}, dontAutoCreateAgent : BOOLEAN,
   timeoutInMilliseconds : {NoTimeout, 500, 2000}]

\* Time one getAgentsByAgentIdRunsByRunId request takes.
RequestLatencies == {0, 500}

\* agents.find(...): index of the first agent among those at the indices S,
\* 0 for undefined.
FirstOf(S) == IF S = {} THEN 0 ELSE CHOOSE i \in S : \A j \in S : i <= j

\* Agent selection that falls back to the first agent whatever was asked for.
SelectAgentAlwaysFallsBack(agents, o) ==
  LET c1 == IF o.agentId # Undefined
            THEN FirstOf({i \in DOMAIN agents : agents[i].id = o.agentId}) ELSE 0
      c2 == IF c1 = 0 /\ o.modelId # Undefined /\ o.llmApiKeyId # Undefined
            THEN FirstOf({i \in DOMAIN agents :
                   agents[i].modelId = o.modelId /\ agents[i].apiKeyId = o.llmApiKeyId})
            ELSE c1
      c3 == IF c2 = 0 /\ o.modelId # Undefined
            THEN FirstOf({i \in DOMAIN agents : agents[i].modelId = o.modelId})
            ELSE c2
      c4 == IF c3 = 0 /\ o.llmApiKeyId # Undefined
            THEN FirstOf({i \in DOMAIN agents : agents[i].apiKeyId = o.llmApiKeyId})
            ELSE c3
  IN IF c4 = 0 THEN FirstOf(DOMAIN agents) ELSE c4

\* The agentCandidate of query, part_006:174-214, as an index of data.agents
\* (0: undefined).
SelectAgent(agents, o) ==
  LET c1 == IF o.agentId # Undefined
            THEN FirstOf({i \in DOMAIN agents : agents[i].id = o.agentId}) ELSE 0
      c2 == IF c1 = 0 /\ o.modelId # Undefined /\ o.llmApiKeyId # Undefined
            THEN FirstOf({i \in DOMAIN agents :
                   agents[i].modelId = o.modelId /\ agents[i].apiKeyId = o.llmApiKeyId})
            ELSE c1
      c3 == IF c2 = 0 /\ o.modelId # Undefined
            THEN FirstOf({i \in DOMAIN agents : agents[i].modelId = o.modelId})
            ELSE c2
      c4 == IF c3 = 0 /\ o.llmApiKeyId # Undefined
            THEN FirstOf({i \in DOMAIN agents : agents[i].apiKeyId = o.llmApiKeyId})
            ELSE c3
  IN IF /\ c4 = 0 /\ o.llmApiKeyId = Undefined /\ o.modelId = Undefined
        /\ o.agentId = Undefined
     THEN FirstOf(DOMAIN agents)
     ELSE c4

\* What the query components leave alone.
QueryFrame ==
  UNCHANGED <<deploymentState, eventSource, promise, timeout, crashTimers,
              crashLogFetch, fired, delivered, script, process, earlierRun,
              fetcher, stream, viewer, config>>

\* getAgents has answered, part_006:160-262: the agent is selected, or
\* created, or query throws.
ChooseAgent ==
  /\ query.pc = "selecting"
  /\ LET i == SelectAgent(query.agents, query.options)
     IN query' =
          IF i # 0
          THEN [query EXCEPT !.pc = "startRun", !.agent = query.agents[i].id]
          ELSE IF query.options.dontAutoCreateAgent
          THEN [query EXCEPT !.pc = "failed",
                  !.result = "No matching agent found and auto-creation is disabled"]
          ELSE [query EXCEPT !.pc = "startRun", !.agent = "created",
                             !.created = @ + 1]
  /\ QueryFrame

\* postAgentsByAgentIdRuns, part_006:264-285.
StartRun ==
  /\ query.pc = "startRun"
  /\ query' = [query EXCEPT !.pc = "polling", !.runs = @ + 1]
  /\ QueryFrame

\* One round of the do-while loop, part_006:292-324: wait, request, return on
\* an outcome other than unknown, else test the elapsed time.
Poll(latency, outcome) ==
  /\ query.pc = "polling"
  /\ query.polls < MaxPolls
  /\ LET now == query.elapsed + PollIntervalMs + latency
         limit == query.options.timeoutInMilliseconds
     IN query' =
          [query EXCEPT
             !.polls = @ + 1,
             !.elapsed = now,
             !.pc = IF outcome # "unknown" THEN "returned"
                    ELSE IF limit = NoTimeout \/ now < limit THEN "polling"
                    ELSE "timedOut",
             !.result = IF outcome # "unknown" THEN outcome
                        ELSE IF limit = NoTimeout \/ now < limit THEN @
                        ELSE "Timeout reached while waiting for run to complete"]
  /\ QueryFrame

\* query(prompt, options) has been called and getAgents requested.
InitQuery ==
  /\ deploymentState = InitialDeploymentState
  /\ eventSource = [readyState |-> "open", closeCalls |-> 0]
  /\ promise = [state |-> "pending", value |-> {}, error |-> Undefined,
                resolveCalls |-> 0, rejectCalls |-> 0]
  /\ timeout = "armed"
  /\ crashTimers = 0
  /\ crashLogFetch = "none"
  /\ fired = <<>>
  /\ delivered = 0
  /\ script = <<>>
  /\ process = "running"
  /\ earlierRun = NoEarlierRun
  /\ fetcher = IdleFetcher
  /\ stream = OpenedStream
  /\ \E a \in AgentLists, o \in QueryOptions :
        query = [IdleQuery EXCEPT !.pc = "selecting", !.agents = a, !.options = o]
  /\ viewer = IdleViewer
  /\ config = EmptyConfig

NextQuery ==
  \/ ChooseAgent
  \/ StartRun
  \/ \E latency \in RequestLatencies, outcome \in {"unknown", "success"} :
        Poll(latency, outcome)

SpecQuery == InitQuery /\ [][NextQuery]_vars

-----------------------------------------------------------------------------
(* fetchCrashLogs, hosted.ts:205-242                                        *)

\* const maxRetries = 50.
MaxRetries == 50

\* The retry test reading stderr instead of stdout.
StderrEmpty(resp) == resp.stderr = ""

\* !stdout, hosted.ts:225.
StdoutEmpty(resp) == resp.stdout = ""

\* The retry bound off by one.
RetriesLeftInclusive(n) == n <= MaxRetries

\* retryCount < maxRetries, hosted.ts:225.
RetriesLeft(n) == n < MaxRetries

\* An error answered by another attempt.
FetchFailedRetries(f) == [f EXCEPT !.retryCount = @ + 1]

\* if (error) return null, and the catch: return null, hosted.ts:215-218,
\* 235-238.
FetchFailed(f) == [f EXCEPT !.pc = "returned", !.result = Null]

\* One run of attemptFetch, hosted.ts:209-239: wait, request, then return or
\* count a retry and recurse.
AttemptFetch(resp) ==
  /\ process = "running"
  /\ fetcher.pc = "waiting"
  /\ LET f == [fetcher EXCEPT
                 !.requests = @ + 1,
                 !.last = resp,
                 !.emptyResponses =
                    IF resp.kind = "logs" /\ resp.stdout = "" THEN @ + 1 ELSE @]
     IN fetcher' =
          CASE resp.kind \in {"error", "threw"} -> FetchFailed(f)
            [] resp.kind = "nodata" -> [f EXCEPT !.pc = "returned", !.result = Null]
            [] OTHER ->
                 IF StdoutEmpty(resp) /\ RetriesLeft(f.retryCount)
                 THEN [f EXCEPT !.retryCount = @ + 1]
                 ELSE [f EXCEPT !.pc = "returned",
                                !.result = Logs(resp.stdout, resp.stderr)]
  /\ UNCHANGED <<deploymentState, eventSource, promise, timeout, crashTimers,
                 crashLogFetch, fired, delivered, script, process, earlierRun, others>>

\* fetchCrashLogs has been called and is about to make its first attempt.
InitFetch ==
  /\ deploymentState = InitialDeploymentState
  /\ eventSource = [readyState |-> "open", closeCalls |-> 0]
  /\ promise = [state |-> "pending", value |-> {}, error |-> Undefined,
                resolveCalls |-> 0, rejectCalls |-> 0]
  /\ timeout = "armed"
  /\ crashTimers = 0
  /\ crashLogFetch = "none"
  /\ fired = <<>>
  /\ delivered = 0
  /\ script = <<>>
  /\ process = "running"
  /\ earlierRun = NoEarlierRun
  /\ fetcher = [IdleFetcher EXCEPT !.pc = "waiting"]
  /\ stream = OpenedStream
  /\ query = IdleQuery
  /\ viewer = IdleViewer
  /\ config = EmptyConfig

NextFetch == \E resp \in Responses : AttemptFetch(resp)

SpecFetch == InitFetch /\ [][NextFetch]_vars

\* The awaited timers and requests of attemptFetch complete.
SpecFetchFair == SpecFetch /\ WF_vars(NextFetch)

-----------------------------------------------------------------------------
(* fetchCrashLogs of the UI log viewer, deploment-logs-frontend.tsx:289-337 *)

\* The responses of getDeploymentsLogs in the UI: as for the CLI, and data
\* without logs.
ViewerResponses == Responses \cup {Response("nologs", "", "")}

\* setDeploymentState with crashLogs.isLoading false, and an entry of errors
\* where the code adds one.
LoadingEnded(v, withError) ==
  [v EXCEPT !.pc = "done", !.isLoading = FALSE,
            !.errors = IF withError THEN @ + 1 ELSE @]

\* One run of attemptFetch, deploment-logs-frontend.tsx:298-334.
ViewerAttempt(resp) ==
  /\ viewer.pc = "waiting"
  /\ LET v == [viewer EXCEPT !.requests = @ + 1]
     IN viewer' =
          CASE resp.kind = "error" -> LoadingEnded(v, TRUE)
            [] resp.kind \in {"threw", "nologs"} -> LoadingEnded(v, TRUE)
            [] resp.kind = "nodata" -> [v EXCEPT !.pc = "done"]
            [] OTHER ->
                 IF StdoutEmpty(resp) /\ RetriesLeft(v.retryCount)
                 THEN [v EXCEPT !.retryCount = @ + 1]
                 ELSE LoadingEnded(v, FALSE)
  /\ UNCHANGED <<deploymentState, eventSource, promise, timeout, crashTimers,
                 crashLogFetch, fired, delivered, script, process, earlierRun,
                 fetcher, stream, query, config>>

\* fetchCrashLogs(podName) has set crashLogs.isLoading and is about to make
\* its first request, deploment-logs-frontend.tsx:289-297, 336.
InitViewer ==
  /\ deploymentState = InitialDeploymentState
  /\ eventSource = [readyState |-> "open", closeCalls |-> 0]
  /\ promise = [state |-> "pending", value |-> {}, error |-> Undefined,
                resolveCalls |-> 0, rejectCalls |-> 0]
  /\ timeout = "armed"
  /\ crashTimers = 0
  /\ crashLogFetch = "none"
  /\ fired = <<>>
  /\ delivered = 0
  /\ script = <<>>
  /\ process = "running"
  /\ earlierRun = NoEarlierRun
  /\ fetcher = IdleFetcher
  /\ stream = OpenedStream
  /\ query = IdleQuery
  /\ viewer = [IdleViewer EXCEPT !.pc = "waiting", !.isLoading = TRUE]
  /\ config = EmptyConfig

NextViewer == \E resp \in ViewerResponses : ViewerAttempt(resp)

SpecViewer == InitViewer /\ [][NextViewer]_vars

\* The awaited request and the 100 ms retry timer complete.
SpecViewerFair == SpecViewer /\ WF_vars(NextViewer)

-----------------------------------------------------------------------------
(* The stored configuration, src/config (unnamed/part_002)                  *)

OrgIds == {"acme", "Beta", "beta"}

\* orgId.toLowerCase()
ToLowerCase(orgId) == IF orgId = "Beta" THEN "beta" ELSE orgId

\* Partial<OrganizationConfig>: a field that is absent is Undefined.
OrgConfigs == [baseUrl : {Undefined, "u1"}, apiKey : {Undefined, "k1", "k2"}]

\* Configuration files the functions may find: no file, or a file with one or
\* two organizations whose default, if any, is one of them.
ConfigFiles ==
  { [orgs |-> o, defaultOrgId |-> d, lastSet |-> EmptyConfig.lastSet] :
      o \in UNION { [K -> OrgConfigs] : K \in {S \in SUBSET OrgIds : Cardinality(S) <= 2} },
      d \in OrgIds \cup {Undefined} }

\* _.merge(object, source) on an existing object: the fields of the source
\* that are defined replace those of the object.
Merge(old, cfg) ==
  [baseUrl |-> IF cfg.baseUrl # Undefined THEN cfg.baseUrl ELSE old.baseUrl,
   apiKey |-> IF cfg.apiKey # Undefined THEN cfg.apiKey ELSE old.apiKey]

\* What the configuration components leave alone.
ConfigFrame ==
  UNCHANGED <<deploymentState, eventSource, promise, timeout, crashTimers,
              crashLogFetch, fired, delivered, script, process, earlierRun,
              fetcher, stream, query, viewer>>

\* setOrganizationConfig, part_002:80-95.  _.merge(config.orgs[orgId],
\* orgConfig) changes the stored object when there is one; for a new orgId its
\* first argument is undefined, the merged object is the return value, which
\* is dropped, and config.orgs is written unchanged.
SetOrganizationConfig(orgId, cfg) ==
  /\ config' =
       [orgs |-> IF orgId \in DOMAIN config.orgs
                 THEN [config.orgs EXCEPT ![orgId] = Merge(@, cfg)]
                 ELSE config.orgs,
        defaultOrgId |-> IF config.defaultOrgId = Undefined THEN orgId
                         ELSE config.defaultOrgId,
        lastSet |-> [made |-> TRUE, orgId |-> orgId,
                     wasStored |-> orgId \in DOMAIN config.orgs,
                     baseUrl |-> cfg.baseUrl, apiKey |-> cfg.apiKey]]
  /\ ConfigFrame

\* setDefaultOrganization, part_002:107-115: throws for an unknown orgId.
SetDefaultOrganization(orgId) ==
  /\ config' =
       IF orgId \in DOMAIN config.orgs
       THEN [config EXCEPT !.defaultOrgId = orgId, !.lastSet.made = FALSE]
       ELSE [config EXCEPT !.lastSet.made = FALSE]
  /\ ConfigFrame

\* removeOrganization, part_002:122-138: throws for an unknown orgId; when the
\* default is removed, the first remaining key becomes the default.
RemoveOrganization(orgId) ==
  /\ IF orgId \in DOMAIN config.orgs
     THEN LET remaining == DOMAIN config.orgs \ {orgId}
          IN \E d \in (IF remaining = {} THEN {Undefined} ELSE remaining) :
               config' =
                 [orgs |-> [k \in remaining |-> config.orgs[k]],
                  defaultOrgId |-> IF config.defaultOrgId = orgId THEN d
                                   ELSE config.defaultOrgId,
                  lastSet |-> [config.lastSet EXCEPT !.made = FALSE]]
     ELSE config' = [config EXCEPT !.lastSet.made = FALSE]
  /\ ConfigFrame

\* getOrganization, part_002:97-100: a field is present in the result when it
\* is defined there.
GetOrganization(orgId) ==
  IF ToLowerCase(orgId) \in DOMAIN config.orgs
  THEN config.orgs[ToLowerCase(orgId)]
  ELSE [baseUrl |-> Undefined, apiKey |-> Undefined]

\* listOrganizations, part_002:102-105.
ListOrganizations == DOMAIN config.orgs

InitConfig ==
  /\ deploymentState = InitialDeploymentState
  /\ eventSource = [readyState |-> "open", closeCalls |-> 0]
  /\ promise = [state |-> "pending", value |-> {}, error |-> Undefined,
                resolveCalls |-> 0, rejectCalls |-> 0]
  /\ timeout = "armed"
  /\ crashTimers = 0
  /\ crashLogFetch = "none"
  /\ fired = <<>>
  /\ delivered = 0
  /\ script = <<>>
  /\ process = "running"
  /\ earlierRun = NoEarlierRun
  /\ fetcher = IdleFetcher
  /\ stream = OpenedStream
  /\ query = IdleQuery
  /\ viewer = IdleViewer
  /\ config \in { c \in ConfigFiles :
                     c.defaultOrgId = Undefined \/ c.defaultOrgId \in DOMAIN c.orgs }

NextConfig ==
  \/ \E orgId \in OrgIds, cfg \in OrgConfigs : SetOrganizationConfig(orgId, cfg)
  \/ \E orgId \in OrgIds : SetDefaultOrganization(orgId)
  \/ \E orgId \in OrgIds : RemoveOrganization(orgId)

SpecConfig == InitConfig /\ [][NextConfig]_vars

-----------------------------------------------------------------------------
(* Two runs of the monitor in one process over the same event sequence      *)

\* Length of the event sequences that are replayed twice.
MaxTwice == 2

InitTwice ==
  /\ deploymentState = InitialDeploymentState
  /\ eventSource = [readyState |-> "open", closeCalls |-> 0]
  /\ promise = [state |-> "pending", value |-> {}, error |-> Undefined,
                resolveCalls |-> 0, rejectCalls |-> 0]
  /\ timeout = "armed"
  /\ crashTimers = 0
  /\ crashLogFetch = "none"
  /\ fired = <<>>
  /\ delivered = 0
  /\ script \in UNION {[1..n -> Events] : n \in 0..MaxTwice}
  /\ process = "running"
  /\ earlierRun = NoEarlierRun
  /\ fetcher = IdleFetcher
  /\ stream = OpenedStream
  /\ query = IdleQuery
  /\ viewer = IdleViewer
  /\ config = EmptyConfig

\* The first run is over: settled, closed, no callback of it left to run.
FirstRunOver ==
  /\ promise.state # "pending"
  /\ eventSource.readyState = "closed"
  /\ timeout = "fired"
  /\ crashTimers = 0
  /\ crashLogFetch # "pending"

\* A second call that finds the errors of the first run in its state.
RunAgainKeepingErrors ==
  /\ process = "running"
  /\ ~earlierRun.ran
  /\ FirstRunOver
  /\ earlierRun' = [ran |-> TRUE, deploymentState |-> deploymentState,
                    delivered |-> delivered, fired |-> fired,
                    crashLogFetch |-> crashLogFetch]
  /\ deploymentState' =
       [InitialDeploymentState EXCEPT !.errors = deploymentState.errors]
  /\ eventSource' = [readyState |-> "open", closeCalls |-> 0]
  /\ promise' = [state |-> "pending", value |-> {}, error |-> Undefined,
                 resolveCalls |-> 0, rejectCalls |-> 0]
  /\ timeout' = "armed"
  /\ crashTimers' = 0
  /\ crashLogFetch' = "none"
  /\ fired' = <<>>
  /\ delivered' = 0
  /\ UNCHANGED <<script, process, fetcher, others>>

\* The caller calls showDeploymentProgress again, hosted.ts:274-301, 581: the
\* executor builds a new deploymentState from literals, a new EventSource and
\* a new timer; every callback closes over these locals.  The server sends
\* the same events again.
RunAgain ==
  /\ process = "running"
  /\ ~earlierRun.ran
  /\ FirstRunOver
  /\ earlierRun' = [ran |-> TRUE, deploymentState |-> deploymentState,
                    delivered |-> delivered, fired |-> fired,
                    crashLogFetch |-> crashLogFetch]
  /\ deploymentState' = InitialDeploymentState
  /\ eventSource' = [readyState |-> "open", closeCalls |-> 0]
  /\ promise' = [state |-> "pending", value |-> {}, error |-> Undefined,
                 resolveCalls |-> 0, rejectCalls |-> 0]
  /\ timeout' = "armed"
  /\ crashTimers' = 0
  /\ crashLogFetch' = "none"
  /\ fired' = <<>>
  /\ delivered' = 0
  /\ UNCHANGED <<script, process, fetcher, others>>

NextTwice ==
  \/ NextReplay
  \/ RunAgain

SpecTwice == InitTwice /\ [][NextTwice]_vars

\* Timers that are set fire, and a started crash-log fetch completes
\* (setTimeout, hosted.ts:416, 557, 581; fetchCrashLogs is bounded by its
\* retry count, hosted.ts:206).  Nothing is assumed about the server.
SpecFair ==
  /\ Spec
  /\ WF_vars(OnTimeout)
  /\ WF_vars(OnCrashTimer)
  /\ WF_vars(CrashLogsFetched \/ CrashLogsUnavailable)

-----------------------------------------------------------------------------
(* Properties of the monitor                                                *)

\* The record the caller reads its result from: {deployed, stabilized, podName}.
IsOutcome(o) ==
  /\ DOMAIN o = {"deployed", "stabilized", "podName"}
  /\ o.deployed \in BOOLEAN
  /\ o.stabilized \in BOOLEAN

FirstFired(path) == fired # <<>> /\ fired[1] = path

\* The Outcomes the caller receives: the value of the fulfilled promise.
Outcomes ==
  IF promise.state = "fulfilled"
  THEN {o \in promise.value : IsOutcome(o)}
  ELSE {}

\* C1: in one run exactly one terminal path (done, ready, crashed, error,
\* timeout) executes; after one has fired no other fires.
C1_ExactlyOneTerminalPath == Len(fired) <= 1

\* C2: once a terminal path has fired, no stream event is processed any more:
\* podInfo, containers, errors and the terminal flags keep their values in
\* every later step of the run.
C2_StateFrozenAfterTerminal ==
  [][fired # <<>> =>
       /\ deploymentState'.podInfo = deploymentState.podInfo
       /\ deploymentState'.hasPodInfo = deploymentState.hasPodInfo
       /\ deploymentState'.containers = deploymentState.containers
       /\ deploymentState'.errors = deploymentState.errors
       /\ deploymentState'.isComplete = deploymentState.isComplete
       /\ deploymentState'.isReady = deploymentState.isReady
       /\ deploymentState'.hasCrashed = deploymentState.hasCrashed
       /\ delivered' = delivered]_vars

\* C2 witness: the ready path fired while the server still had events to send,
\* and the run went on (the 5-minute timer ran afterwards).
C2_Witness ==
  /\ FirstFired("ready")
  /\ deploymentState.hasPodInfo
  /\ delivered < MaxEvents
  /\ timeout = "fired"

\* C3: whatever the events and failures (crash, transport error, timeout,
\* malformed payload), the promise of the monitor is never rejected: every
\* failure is reported to the caller through a fulfilled Outcome.
C3_NeverRejected == promise.state # "rejected"

\* C4: a processed done event terminates the monitor with deployed = true and
\* stabilized = NOT hasCrashed.
C4_DoneOutcome ==
  "done" \in Range(fired) =>
     (\E o \in Outcomes : o.deployed /\ (o.stabilized <=> ~deploymentState.hasCrashed))

\* C5: the first mainContainerReady resolves the monitor at once, without a
\* done event, with {deployed: true, stabilized: true, podName set}.
C5_ReadyOutcome ==
  FirstFired("ready") =>
     (\E o \in Outcomes : o.deployed /\ o.stabilized /\ o.podName # Undefined)

\* C6: the first mainContainerCrashed resolves the monitor at once, without a
\* done event, with {deployed: true, stabilized: false, podName set}.
C6_CrashOutcome ==
  FirstFired("crashed") =>
     (\E o \in Outcomes : o.deployed /\ ~o.stabilized /\ o.podName # Undefined)

\* C7: a transport error before any terminal state yields the failed Outcome
\* {deployed: false, stabilized: false}, with podName undefined when no
\* podInfo was received; nothing is thrown.
C7_TransportErrorOutcome ==
  FirstFired("error") =>
     (\E o \in Outcomes : ~o.deployed /\ ~o.stabilized
                      /\ (~deploymentState.hasPodInfo => o.podName = Undefined))

\* C8: the timer firing with isComplete false and no terminal path taken
\* closes the stream and terminates with deployed = false, stabilized = false.
C8_TimeoutOutcome ==
  FirstFired("timeout") =>
     /\ eventSource.readyState = "closed"
     /\ (\E o \in Outcomes : ~o.deployed /\ ~o.stabilized)

\* C9: after a terminal outcome through another path the firing of the
\* 5-minute timer does nothing: no close() and no further resolve or reject.
C9_TimerIgnoredAfterTerminal ==
  [][(fired # <<>> /\ timeout = "armed" /\ timeout' = "fired") =>
       /\ eventSource' = eventSource
       /\ promise' = promise]_vars

\* C10: once the promise has settled, close() has been called exactly once in
\* the whole run.
C10_CloseExactlyOnce ==
  promise.state # "pending" => eventSource.closeCalls = 1

Stopped ==
  /\ promise.state # "pending"
  /\ eventSource.readyState = "closed"
  /\ timeout = "fired"
  /\ crashTimers = 0
  /\ crashLogFetch # "pending"

C13_PodInfoSetOnce ==
  [][deploymentState.hasPodInfo =>
       deploymentState'.podInfo = deploymentState.podInfo]_vars

\* C14: the kind (init or main) of a container never changes after its record
\* was created.
C14_KindNeverChanges ==
  [][\A n \in DOMAIN deploymentState.containers :
       /\ n \in DOMAIN deploymentState'.containers
       /\ deploymentState'.containers[n].type = deploymentState.containers[n].type]_vars

FinalStatuses == {"completed", "failed", "ready"}

\* C15: a container whose status is completed, failed or ready is never moved
\* to running or pending by a later event.
C15_NoBackwardStatus ==
  [][\A n \in DOMAIN deploymentState.containers :
       deploymentState.containers[n].status \in FinalStatuses =>
         deploymentState'.containers[n].status \notin {"running", "pending"}]_vars

\* C16: isComplete, isReady and hasCrashed are monotonic: a flag that is true
\* stays true in every later step of the session.
C16_FlagsMonotonic ==
  [][/\ deploymentState.isComplete => deploymentState'.isComplete
     /\ deploymentState.isReady => deploymentState'.isReady
     /\ deploymentState.hasCrashed => deploymentState'.hasCrashed]_vars

\* C16 witness: the state was written again (crash logs stored) after
\* hasCrashed had been set.
C16_Witness ==
  /\ deploymentState.hasCrashed
  /\ crashLogFetch = "stored"
  /\ deploymentState.crashLogs = "logs"

\* The step is the listener handling the next event of the script.
ListenerStep == delivered' = delivered + 1

InitContainerEventTypes == {"initContainerRunning", "initContainerTerminated"}

C18_PodInfoCreatesByList ==
  [][(ListenerStep /\ script[delivered'].type = "podInfo") =>
       LET ev == script[delivered']
           cs == deploymentState'.containers
       IN /\ deploymentState'.hasPodInfo
          /\ deploymentState'.podInfo.pod = ev.pod
          /\ \A n \in Range(ev.initContainers) :
                n \in DOMAIN cs /\ cs[n] = PendingContainer(n, "init")
          /\ \A n \in Range(ev.containers) :
                n \in DOMAIN cs /\ cs[n] = PendingContainer(n, "main")]_vars

\* C18 amended: a podInfo event sets podInfo and creates a pending record of
\* kind main for every name of the main list and a pending record of kind init
\* for every name of the init list that is not in the main list; records of
\* names in neither list are kept.
C18_PodInfoCreatesMainWins ==
  [][(ListenerStep /\ script[delivered'].type = "podInfo") =>
       LET ev == script[delivered']
           cs == deploymentState'.containers
           ini == Range(ev.initContainers)
           mai == Range(ev.containers)
       IN /\ deploymentState'.hasPodInfo
          /\ deploymentState'.podInfo =
                [pod |-> ev.pod, initContainers |-> ev.initContainers,
                 containers |-> ev.containers]
          /\ DOMAIN cs = DOMAIN deploymentState.containers \cup ini \cup mai
          /\ \A n \in mai : cs[n] = PendingContainer(n, "main")
          /\ \A n \in ini \ mai : cs[n] = PendingContainer(n, "init")
          /\ \A n \in DOMAIN deploymentState.containers \ (ini \cup mai) :
                cs[n] = deploymentState.containers[n]]_vars

\* C18 witness: a podInfo event naming "main" in both lists has been handled.
C18_Witness ==
  /\ delivered >= 1
  /\ LastEvent.type = "podInfo"
  /\ Range(LastEvent.initContainers) \cap Range(LastEvent.containers) # {}
  /\ deploymentState.containers["main"].type = "main"

\* The final state of the example of section 8.
ExampleFinalState ==
  LET cs == deploymentState.containers
  IN /\ DOMAIN cs = {"download", "unzip", "main"}
     /\ cs["download"].status = "completed"
     /\ cs["unzip"].status = "failed" /\ cs["unzip"].reason = "OOMKilled"
     /\ cs["main"].status = "ready"
     /\ deploymentState.isReady
     /\ ~deploymentState.hasCrashed

\* C19: initContainerTerminated for an existing container sets its status to
\* completed when exitCode is 0 and to failed otherwise and records startedAt,
\* finishedAt, exitCode and reason; the example sequence ends in the state
\* download completed, unzip failed (OOMKilled), main ready, isReady, not
\* hasCrashed.
C19_InitTerminated ==
  /\ [][(/\ ListenerStep
          /\ script[delivered'].type = "initContainerTerminated"
          /\ script[delivered'].name \in DOMAIN deploymentState.containers) =>
           LET ev == script[delivered']
               c == deploymentState'.containers[ev.name]
           IN /\ c.status = (IF ev.exitCode = 0 THEN "completed" ELSE "failed")
              /\ c.startedAt = ev.startedAt /\ c.finishedAt = ev.finishedAt
              /\ c.exitCode = ev.exitCode /\ c.reason = ev.reason
              /\ c.name = deploymentState.containers[ev.name].name
              /\ c.type = deploymentState.containers[ev.name].type]_vars
  /\ []((script = ExampleSequence /\ delivered = Len(ExampleSequence)) =>
          ExampleFinalState)

\* C19 witness: the whole example sequence has been handled.
C19_Witness ==
  /\ script = ExampleSequence
  /\ delivered = Len(ExampleSequence)
  /\ deploymentState.containers["unzip"].exitCode = 1

C21_MainCrashed ==
  [][(ListenerStep /\ script[delivered'].type = "mainContainerCrashed") =>
       LET ev == script[delivered']
           old == deploymentState.containers
           new == deploymentState'.containers
       IN /\ DOMAIN new = DOMAIN old
          /\ \A n \in DOMAIN old :
                IF old[n].type = "main"
                THEN new[n] = [old[n] EXCEPT !.status = "failed",
                                 !.startedAt = ev.startedAt,
                                 !.finishedAt = ev.finishedAt,
                                 !.exitCode = ev.exitCode, !.reason = ev.reason]
                ELSE new[n] = old[n]
          /\ deploymentState'.hasCrashed]_vars

\* C21 witness: mainContainerCrashed with exit code 1 was handled in a state
\* with a completed init container and a main container.
C21_Witness ==
  /\ delivered >= 3
  /\ LastEvent.type = "mainContainerCrashed"
  /\ LastEvent.exitCode = 1
  /\ \E n \in DOMAIN deploymentState.containers :
        /\ deploymentState.containers[n].type = "init"
        /\ deploymentState.containers[n].status = "completed"
  /\ \E n \in DOMAIN deploymentState.containers :
        /\ deploymentState.containers[n].type = "main"
        /\ deploymentState.containers[n].reason = "OOMKilled"

\* C22: mainContainerCrashBackOff sets the status of every main container to
\* crashBackOff, does not set hasCrashed and ends nothing.
C22_CrashBackOff ==
  [][(ListenerStep /\ script[delivered'].type = "mainContainerCrashBackOff") =>
       /\ \A n \in DOMAIN deploymentState'.containers :
             deploymentState'.containers[n].type = "main" =>
               deploymentState'.containers[n].status = "crashBackOff"
       /\ deploymentState'.hasCrashed = deploymentState.hasCrashed
       /\ fired' = fired
       /\ eventSource' = eventSource]_vars

\* C23: an error event appends its message at the end of errors and changes
\* nothing else: containers, podInfo, the flags and the earlier entries of
\* errors are kept, and the run does not end because of it.
C23_ErrorEventAppendsOnly ==
  [][(ListenerStep /\ script[delivered'].type = "error") =>
       /\ deploymentState' =
            [deploymentState EXCEPT
               !.errors = Append(@, script[delivered'].message)]
       /\ fired' = fired
       /\ eventSource' = eventSource
       /\ promise' = promise
       /\ crashTimers' = crashTimers]_vars

\* C23 witness: an error event was handled after an earlier entry of errors
\* and a podInfo; the earlier entry is first, the message last, the run goes on.
C23_Witness ==
  /\ delivered >= 3
  /\ LastEvent.type = "error"
  /\ deploymentState.hasPodInfo
  /\ deploymentState.errors = <<"Failed to parse deployment log", "backend error">>
  /\ eventSource.readyState = "open"
  /\ promise.state = "pending"

\* C24: the event handler never throws for a malformed event: no exception
\* leaves the listener, so the process keeps running.
C24_HandlerNeverThrows == process = "running"

C26_CrashOutcomeCarriesPodName ==
  (deploymentState.hasCrashed /\ deploymentState.hasPodInfo) =>
     /\ crashLogFetch = "none"
     /\ promise.state # "pending" =>
          \E o \in promise.value : o.podName = deploymentState.podInfo.pod

\* C27: the run ends as ready only in a state where a main container has
\* status ready, and as crashed only where a main container has status
\* failed.
C27_TerminalDecisionFromMainStatus ==
  /\ "ready" \in Range(fired) =>
       \E n \in DOMAIN deploymentState.containers :
          /\ deploymentState.containers[n].type = "main"
          /\ deploymentState.containers[n].status = "ready"
  /\ "crashed" \in Range(fired) =>
       \E n \in DOMAIN deploymentState.containers :
          /\ deploymentState.containers[n].type = "main"
          /\ deploymentState.containers[n].status = "failed"

\* fetchCrashLogs has returned; it makes no request afterwards.
FetchReturnedIsFinal == [][fetcher.pc = "returned" => fetcher' = fetcher]_vars

\* C28: the crash-log fetcher stops at the first response with non-empty
\* stdout and returns that response: every earlier response had empty stdout,
\* and no request follows (logs that appear at attempt 10 are returned after
\* exactly 10 requests).
C28_StopsAtFirstStdout ==
  /\ []((fetcher.last.kind = "logs" /\ fetcher.last.stdout # "") =>
          /\ fetcher.pc = "returned"
          /\ fetcher.result = Logs(fetcher.last.stdout, fetcher.last.stderr)
          /\ fetcher.emptyResponses = fetcher.requests - 1)
  /\ []((fetcher.pc = "returned" /\ fetcher.result.stdout # "") =>
          fetcher.last.kind = "logs" /\ fetcher.last.stdout # "")
  /\ FetchReturnedIsFinal

\* C28 witness: stdout was empty on attempts 1 to 9 and the logs of attempt 10
\* were returned.
C28_Witness ==
  /\ fetcher.pc = "returned"
  /\ fetcher.requests = 10
  /\ fetcher.emptyResponses = 9
  /\ fetcher.result = Logs("out", "err")

\* C29 as stated: after 50 attempts with empty stdout the fetcher has
\* returned instead of retrying further.
C29_ReturnsAfter50Attempts ==
  fetcher.emptyResponses >= MaxRetries => fetcher.pc = "returned"

\* C29 amended: the fetcher terminates; it makes at most 51 requests (the
\* first attempt and up to 50 retries), and when stdout was empty on all 51 it
\* returns the logs of the 51st instead of retrying further.
C29_TerminatesAfter50Retries ==
  /\ <>(fetcher.pc = "returned")
  /\ [](/\ fetcher.requests <= MaxRetries + 1
        /\ fetcher.retryCount <= MaxRetries
        /\ fetcher.retryCount <= fetcher.requests)
  /\ [](fetcher.emptyResponses = MaxRetries + 1 =>
          /\ fetcher.pc = "returned"
          /\ fetcher.requests = MaxRetries + 1
          /\ fetcher.result = Logs("", fetcher.last.stderr))

\* C29 witness: stdout and stderr were empty on all 51 requests and the empty
\* logs were returned.
C29_Witness ==
  /\ fetcher.pc = "returned"
  /\ fetcher.emptyResponses = MaxRetries + 1
  /\ fetcher.retryCount = MaxRetries
  /\ fetcher.result = Logs("", "")

\* C30: an API error or a network failure on any attempt ends the retry loop:
\* the fetcher returns null, throws nothing and makes no further request.
C30_ErrorAbortsWithNull ==
  /\ [](fetcher.last.kind \in {"error", "threw"} =>
          /\ fetcher.pc = "returned"
          /\ fetcher.result = Null
          /\ ~fetcher.thrown)
  /\ [][(fetcher.pc = "returned" /\ fetcher.result = Null) =>
          fetcher'.requests = fetcher.requests]_vars

\* C30 witness: the request threw on a retry, after responses with empty
\* stdout, and null was returned.
C30_Witness ==
  /\ fetcher.pc = "returned"
  /\ fetcher.last.kind = "threw"
  /\ fetcher.emptyResponses >= 2
  /\ fetcher.requests = fetcher.emptyResponses + 1
  /\ fetcher.result = Null

\* What the listener does to the state for one event, hosted.ts:406-542: the
\* done branch, the switch, or the catch for data that is not JSON.
ListenerEffect(s, ev) ==
  CASE ev.type = "malformed" ->
         [s EXCEPT !.errors = Append(@, "Failed to parse deployment log")]
    [] ev.type = "done" -> [s EXCEPT !.isComplete = TRUE]
    [] OTHER -> Reduce(s, ev)

RECURSIVE FoldEvents(_)
\* The left fold of the listener over the first k events of the script.
FoldEvents(k) ==
  IF k = 0 THEN InitialDeploymentState
  ELSE ListenerEffect(FoldEvents(k - 1), script[k])

C35_OnlyListenerWritesState ==
  [][deploymentState' # deploymentState => delivered' = delivered + 1]_vars

\* C36: the crash-log fetch started at crash detection has finished before
\* the crash outcome is delivered: once the promise of a crashed run has
\* settled, no fetch is pending.
C36_FetchDoneBeforeOutcome ==
  (deploymentState.hasCrashed /\ promise.state # "pending") =>
     crashLogFetch # "pending"

PreferredAgent ==
  LET a == query.agents
      o == query.options
      byId == {i \in DOMAIN a : a[i].id = o.agentId}
      byBoth == {i \in DOMAIN a :
                   a[i].modelId = o.modelId /\ a[i].apiKeyId = o.llmApiKeyId}
      byModel == {i \in DOMAIN a : a[i].modelId = o.modelId}
      byKey == {i \in DOMAIN a : a[i].apiKeyId = o.llmApiKeyId}
  IN CASE byId # {} -> FirstOf(byId)
       [] byId = {} /\ byBoth # {} -> FirstOf(byBoth)
       [] byId = {} /\ byBoth = {} /\ byModel # {} -> FirstOf(byModel)
       [] byId = {} /\ byBoth = {} /\ byModel = {} /\ byKey # {} -> FirstOf(byKey)
       [] OTHER ->
            IF /\ o.agentId = Undefined /\ o.modelId = Undefined
               /\ o.llmApiKeyId = Undefined /\ a # <<>>
            THEN 1 ELSE 0

C33_WaitsAtMostTimeout ==
  query.pc = "timedOut" =>
    query.elapsed <= query.options.timeoutInMilliseconds

\* C37: in the UI, a crash-log fetch that has set crashLogs.isLoading to true
\* eventually sets it to false, whatever the log API answers.
C37_LoadingEventuallyEnds == viewer.isLoading ~> ~viewer.isLoading

\* C38: after any sequence of setOrganizationConfig, setDefaultOrganization
\* and removeOrganization calls, the stored defaultOrgId is undefined or a key
\* of the stored orgs map.
C38_DefaultOrgIsStored ==
  config.defaultOrgId = Undefined \/ config.defaultOrgId \in DOMAIN config.orgs

\* C39: right after setOrganizationConfig(orgId, cfg), getOrganization(orgId)
\* returns a configuration with every field of cfg, and listOrganizations
\* contains orgId, for a stored and for a new orgId.
C39_SetThenGet ==
  config.lastSet.made =>
    /\ config.lastSet.orgId \in ListOrganizations
    /\ config.lastSet.baseUrl # Undefined =>
         GetOrganization(config.lastSet.orgId).baseUrl = config.lastSet.baseUrl
    /\ config.lastSet.apiKey # Undefined =>
         GetOrganization(config.lastSet.orgId).apiKey = config.lastSet.apiKey

====
